---- MODULE Spec2Model ----
(***************************************************************************)
(* emu-term: the escape-sequence lexer (src/emu-term/src/ansi.rs) and the  *)
(* terminal state machine (src/emu-term/src/main.rs).                      *)
(*                                                                         *)
(* Bytes are integers 0..255, byte slices are sequences of bytes, chars    *)
(* are Unicode code points.                                                *)
(***************************************************************************)
EXTENDS Integers, Sequences, FiniteSets, TLC

VARIABLES
    input,            \* the byte slice handed to AnsiParser::new
    slice,            \* AnsiParser.slice: the bytes not lexed yet
    items,            \* the tokens next() has returned so far, in order
    ended,            \* next() has returned None
    grid,             \* State.grid: the rows, each a sequence of cells
    brush,            \* State.brush: pos (column, row), fg_color, bg_color
    status,           \* "running", or how the process died
    overflow_checks,  \* the build: TRUE panics on integer overflow, FALSE wraps
    fed,              \* bytes and codes handed to the state machine so far
    last,             \* the token handed to the state machine last
    shrunk,           \* that token left a row of the grid shorter than it was
    rd,               \* the read loop of pcomms: where it is, the batch it holds
    tx,               \* the batches in the channel from the read loop
    fw,               \* the forwarding loop of pcomms: where it is, what it holds
    out,              \* the messages in the channel of the stream, to the engine
    reads,            \* what the reads of the master descriptor returned, in order
    sends,            \* how many batches the read loop has sent
    delivered,        \* the batches Screen::update was given, in order
    handle,           \* Screen.handle is Some: the master descriptor to write to
    written,          \* the bytes written to the master descriptor, in order
    received,         \* Message::Init and the contents of the write requests, as received
    write_failed      \* a write to the master descriptor has failed

vars == <<input, slice, items, ended, grid, brush, status, overflow_checks, fed,
          last, shrunk, rd, tx, fw, out, reads, sends, delivered, handle,
          written, received, write_failed>>

bridgeVars == <<rd, tx, fw, out, reads, sends>>

engineVars == <<delivered, handle, written, received, write_failed>>

lexerVars == <<input, slice, items, ended>>

screenVars == <<grid, brush, status, overflow_checks, fed, last, shrunk>>

-----------------------------------------------------------------------------
(* Bounds of the model.                                                    *)

\* longest byte slice drawn from LexAlphabet in full
MaxInputLen == 4

\* bytes and codes handed to the state machine in one run
MaxFeed == 3

\* reads of the master descriptor in one run
MaxReads == 3

\* the capacity the two channels of pcomms are run with; the source creates
\* both with 100
QueueCapacity == 2

\* write requests, and batches given to Screen::update directly, in one run
MaxWrites == 2

-----------------------------------------------------------------------------
(* Bytes.                                                                  *)

Ord ==
    "[" :> 91 @@ "?" :> 63 @@ "=" :> 61 @@ ">" :> 62 @@ ";" :> 59 @@
    "(" :> 40 @@ ")" :> 41 @@
    "0" :> 48 @@ "1" :> 49 @@ "2" :> 50 @@ "3" :> 51 @@ "4" :> 52 @@
    "5" :> 53 @@ "6" :> 54 @@ "7" :> 55 @@ "8" :> 56 @@ "9" :> 57 @@
    "A" :> 65 @@ "B" :> 66 @@ "C" :> 67 @@ "D" :> 68 @@ "H" :> 72 @@
    "J" :> 74 @@ "K" :> 75 @@ "N" :> 78 @@ "O" :> 79 @@
    "f" :> 102 @@ "h" :> 104 @@ "l" :> 108 @@ "m" :> 109 @@ "r" :> 114 @@
    "s" :> 115 @@ "u" :> 117 @@ "x" :> 120

\* the bytes of an ASCII literal given as a tuple of one-character strings
Lit(cs) == [i \in 1..Len(cs) |-> Ord[cs[i]]]

ESC == 27

IsDigit(b) == b >= 48 /\ b <= 57

Drop(s, n) == SubSeq(s, n + 1, Len(s))

Take(s, n) == SubSeq(s, 1, n)

-----------------------------------------------------------------------------
(* nom primitives, on complete input.  A parse result is                   *)
(*   [ok, rest, kind, p]: ok = FALSE is nom's Err::Error; otherwise rest   *)
(*   is the unconsumed input and (kind, p) the AnsiCode with its payload.  *)

Fail == [ok |-> FALSE, rest |-> <<>>, kind |-> "", p |-> <<>>]

Ok(rest, kind, p) == [ok |-> TRUE, rest |-> rest, kind |-> kind, p |-> p]

\* tag(t): the input starts with t
HasTag(s, t) == Len(s) >= Len(t) /\ Take(s, Len(t)) = t

\* digit0 / digit1: the length of the leading run of ASCII digits
DigitRun(s) ==
    LET stops == {i \in 1..Len(s) : ~IsDigit(s[i])}
    IN  IF stops = {} THEN Len(s)
        ELSE (CHOOSE i \in stops : \A j \in stops : i <= j) - 1

\* the number of leading '0' digits of a digit run
LeadingZeros(d) ==
    LET nz == {i \in 1..Len(d) : d[i] # 48}
    IN  IF nz = {} THEN Len(d)
        ELSE (CHOOSE i \in nz : \A j \in nz : i <= j) - 1

RECURSIVE Decimal(_)
Decimal(d) ==
    IF d = <<>> THEN 0
    ELSE 10 * Decimal(Take(d, Len(d) - 1)) + (d[Len(d)] - 48)

\* str::parse::<u8>() on a digit run, .unwrap_or(1): empty and > 255 give 1
ParseU8Or1(d) ==
    LET sig == Drop(d, LeadingZeros(d))
    IN  IF d = <<>> \/ Len(sig) > 3 THEN 1
        ELSE IF Decimal(sig) > 255 THEN 1 ELSE Decimal(sig)

\* str::parse::<u32>() on a digit run, .unwrap_or(1): empty and > 4294967295
\* give 1.  The value is split in two halves so that the comparison never
\* leaves the integers TLC holds.
ParseU32Or1(d) ==
    LET sig == Drop(d, LeadingZeros(d))
        hi  == IF Len(sig) > 5 THEN Decimal(Take(sig, Len(sig) - 5)) ELSE 0
        lo  == IF Len(sig) > 5 THEN Decimal(Drop(sig, Len(sig) - 5)) ELSE Decimal(sig)
    IN  IF d = <<>> \/ Len(sig) > 10 THEN 1
        ELSE IF hi > 42949 \/ (hi = 42949 /\ lo > 67295) THEN 1
        ELSE hi * 100000 + lo

\* A numeric sub-parse: [ok, rest, v]
NumFail == [ok |-> FALSE, rest |-> <<>>, v |-> 0]

parse_def_cursor_int(s) ==
    LET n == DigitRun(s)
    IN  [ok |-> TRUE, rest |-> Drop(s, n), v |-> ParseU32Or1(Take(s, n))]

parse_u8(s) ==
    LET n == DigitRun(s)
    IN  IF n = 0 THEN NumFail
        ELSE [ok |-> TRUE, rest |-> Drop(s, n), v |-> ParseU8Or1(Take(s, n))]

parse_u32(s) ==
    LET n == DigitRun(s)
    IN  IF n = 0 THEN NumFail
        ELSE [ok |-> TRUE, rest |-> Drop(s, n), v |-> ParseU32Or1(Take(s, n))]

-----------------------------------------------------------------------------
(* The escape grammar.  Every rule parses the input that follows the ESC.  *)

\* alt: the first parser of the list that succeeds, nom's Err::Error otherwise
FirstOk(rs) ==
    LET oks == {i \in 1..Len(rs) : rs[i].ok}
    IN  IF oks = {} THEN Fail
        ELSE rs[CHOOSE i \in oks : \A j \in oks : i <= j]

\* as tag_parser, but an input that ends inside the literal matches it
tag_parser_truncated(s, t, kind) ==
    IF s # <<>> /\ \A i \in 1..Len(s) : i <= Len(t) => s[i] = t[i]
    THEN Ok(IF Len(s) > Len(t) THEN Drop(s, Len(t)) ELSE <<>>, kind, <<>>)
    ELSE Fail

tag_parser(s, t, kind) ==
    IF HasTag(s, t) THEN Ok(Drop(s, Len(t)), kind, <<>>) ELSE Fail

\* escape matching the empty body: a bare ESC is a code of its own
escape_bare(s) == Ok(s, "Escape", <<>>)

escape(s) ==
    IF HasTag(s, <<ESC>>) THEN Ok(Drop(s, 1), "Escape", <<>>) ELSE Fail

\* delimited(tag("["), parse_def_cursor_int, tag(t)) mapped to kind(amount)
CursorMove(s, t, kind) ==
    IF ~HasTag(s, Lit(<<"[">>)) THEN Fail
    ELSE LET n == parse_def_cursor_int(Drop(s, 1))
         IN  IF HasTag(n.rest, t) THEN Ok(Drop(n.rest, 1), kind, <<n.v>>)
             ELSE Fail

cursor_up(s) == CursorMove(s, Lit(<<"A">>), "CursorUp")

cursor_down(s) == CursorMove(s, Lit(<<"B">>), "CursorUp")

cursor_forward(s) == CursorMove(s, Lit(<<"C">>), "CursorUp")

cursor_backward(s) == CursorMove(s, Lit(<<"D">>), "CursorUp")

\* (tag("[="), parse_u8, tag(t)) mapped to kind(m)
ModeRule(s, t, kind) ==
    IF ~HasTag(s, Lit(<<"[", "=">>)) THEN Fail
    ELSE LET n == parse_u8(Drop(s, 2))
         IN  IF n.ok /\ HasTag(n.rest, t) THEN Ok(Drop(n.rest, 1), kind, <<n.v>>)
             ELSE Fail

set_mode(s) == ModeRule(s, Lit(<<"h">>), "SetMode")

reset_mode(s) == ModeRule(s, Lit(<<"l">>), "ResetMode")

\* parse_u8 (tag(";") parse_u8)^(k-1): [ok, rest, vs]
SgrNone == [ok |-> FALSE, rest |-> <<>>, vs |-> <<>>]

SgrCons(n, more) == [ok |-> more.ok, rest |-> more.rest, vs |-> <<n.v>> \o more.vs]

RECURSIVE SgrParams(_, _)
SgrAfter(n, k) ==
    IF ~n.ok THEN SgrNone
    ELSE IF k = 1 THEN [ok |-> TRUE, rest |-> n.rest, vs |-> <<n.v>>]
    ELSE IF ~HasTag(n.rest, Lit(<<";">>)) THEN SgrNone
    ELSE SgrCons(n, SgrParams(Drop(n.rest, 1), k - 1))

SgrParams(s, k) == SgrAfter(parse_u8(s), k)

\* Pad5 filling the unsupplied slots with the first value
Pad5_repeat(vs) == [i \in 1..5 |-> IF i <= Len(vs) THEN vs[i] ELSE vs[1]]

\* the [u8; 5] of SetGraphicsMode: the parsed values, then zeros
Pad5(vs) == [i \in 1..5 |-> IF i <= Len(vs) THEN vs[i] ELSE 0]

\* (tag("["), parse_u8, (tag(";"), parse_u8)^(k-1), tag("m"))
\*   mapped to SetGraphicsMode(k, [a, b, .., 0])
SgrCode(ps, k) ==
    IF ps.ok /\ HasTag(ps.rest, Lit(<<"m">>))
    THEN Ok(Drop(ps.rest, 1), "SetGraphicsMode", <<k>> \o Pad5(ps.vs))
    ELSE Fail

GraphicsModeN(s, k) ==
    IF ~HasTag(s, Lit(<<"[">>)) THEN Fail
    ELSE SgrCode(SgrParams(Drop(s, 1), k), k)

graphics_mode1(s) == GraphicsModeN(s, 1)

graphics_mode2(s) == GraphicsModeN(s, 2)

graphics_mode3(s) == GraphicsModeN(s, 3)

graphics_mode4(s) == GraphicsModeN(s, 4)

graphics_mode5(s) == GraphicsModeN(s, 5)

graphics_mode(s) ==
    FirstOk(<<graphics_mode1(s), graphics_mode2(s), graphics_mode3(s),
              graphics_mode4(s), graphics_mode5(s)>>)

set_top_and_bottom(s) ==
    IF ~HasTag(s, Lit(<<"[">>)) THEN Fail
    ELSE LET x == parse_u32(Drop(s, 1))
         IN  IF ~(x.ok /\ HasTag(x.rest, Lit(<<";">>))) THEN Fail
             ELSE LET y == parse_u32(Drop(x.rest, 1))
                  IN  IF y.ok /\ HasTag(y.rest, Lit(<<"r">>))
                      THEN Ok(Drop(y.rest, 1), "SetTopAndBottom", <<x.v, y.v>>)
                      ELSE Fail

cursor_pos(s) ==
    IF ~HasTag(s, Lit(<<"[">>)) THEN Fail
    ELSE LET x   == parse_def_cursor_int(Drop(s, 1))
             sep == IF HasTag(x.rest, Lit(<<";">>)) THEN Drop(x.rest, 1) ELSE x.rest
             y   == parse_def_cursor_int(sep)
         IN  IF HasTag(y.rest, Lit(<<"H">>)) \/ HasTag(y.rest, Lit(<<"f">>))
             THEN Ok(Drop(y.rest, 1), "CursorPos", <<x.v, y.v>>)
             ELSE Fail

cursor_reset_style(s) == tag_parser(s, Lit(<<"[", "m">>), "CursorResetStyle")

cursor_save(s) == tag_parser(s, Lit(<<"[", "s">>), "CursorSave")

cursor_restore(s) == tag_parser(s, Lit(<<"[", "u">>), "CursorRestore")

erase_in_display(s) == tag_parser(s, Lit(<<"[", "J">>), "EraseDisplay")

erase_full_display(s) == tag_parser(s, Lit(<<"[", "2", "J">>), "EraseAllDisplay")

erase_line(s) == tag_parser(s, Lit(<<"[", "K">>), "EraseLine")

enable_bracketed_paste(s) == tag_parser(s, Lit(<<"[", "?", "2", "0", "0", "4", "h">>), "EnableBracketedPaste")

disable_bracketed_paste(s) == tag_parser(s, Lit(<<"[", "?", "2", "0", "0", "4", "l">>), "DisableBracketedPaste")

enable_cursor_blink(s) == tag_parser(s, Lit(<<"[", "?", "1", "2", "h">>), "EnableCursorBlink")

disable_cursor_blink(s) == tag_parser(s, Lit(<<"[", "?", "1", "2", "l">>), "DisableCursorBlink")

hide_cursor(s) == tag_parser(s, Lit(<<"[", "?", "2", "5", "l">>), "HideCursor")

show_cursor(s) == tag_parser(s, Lit(<<"[", "?", "2", "5", "h">>), "ShowCursor")

cursor_to_app(s) == tag_parser(s, Lit(<<"[", "?", "1", "h">>), "CursorToApp")

set_new_line_mode(s) == tag_parser(s, Lit(<<"[", "2", "0", "h">>), "SetNewLineMode")

set_col_132(s) == tag_parser(s, Lit(<<"[", "?", "3", "h">>), "SetCol132")

set_smooth_scroll(s) == tag_parser(s, Lit(<<"[", "?", "4", "h">>), "SetSmoothScroll")

set_reverse_video(s) == tag_parser(s, Lit(<<"[", "?", "5", "h">>), "SetReverseVideo")

set_origin_rel(s) == tag_parser(s, Lit(<<"[", "?", "6", "h">>), "SetOriginRelative")

set_auto_wrap(s) == tag_parser(s, Lit(<<"[", "?", "7", "h">>), "SetAutoWrap")

set_auto_repeat(s) == tag_parser(s, Lit(<<"[", "?", "8", "h">>), "SetAutoRepeat")

set_interlacing(s) == tag_parser(s, Lit(<<"[", "?", "9", "h">>), "SetInterlacing")

set_linefeed(s) == tag_parser(s, Lit(<<"[", "2", "0", "l">>), "SetLineFeedMode")

set_cursorkey(s) == tag_parser(s, Lit(<<"[", "?", "1", "l">>), "SetCursorKeyToCursor")

set_vt52(s) == tag_parser(s, Lit(<<"[", "?", "2", "l">>), "SetVT52")

set_col80(s) == tag_parser(s, Lit(<<"[", "?", "3", "l">>), "SetCol80")

set_jump_scroll(s) == tag_parser(s, Lit(<<"[", "?", "4", "l">>), "SetJumpScrolling")

set_normal_video(s) == tag_parser(s, Lit(<<"[", "?", "5", "l">>), "SetNormalVideo")

set_origin_abs(s) == tag_parser(s, Lit(<<"[", "?", "6", "l">>), "SetOriginAbsolute")

reset_auto_wrap(s) == tag_parser(s, Lit(<<"[", "?", "7", "l">>), "ResetAutoWrap")

reset_auto_repeat(s) == tag_parser(s, Lit(<<"[", "?", "8", "l">>), "ResetAutoRepeat")

reset_interlacing(s) == tag_parser(s, Lit(<<"[", "?", "9", "l">>), "ResetInterlacing")

set_alternate_keypad(s) == tag_parser(s, Lit(<<"=">>), "SetAlternateKeypad")

set_numeric_keypad(s) == tag_parser(s, Lit(<<">">>), "SetNumericKeypad")

set_uk_g0(s) == tag_parser(s, Lit(<<"(", "A">>), "SetUKG0")

set_uk_g1(s) == tag_parser(s, Lit(<<")", "A">>), "SetUKG1")

set_us_g0(s) == tag_parser(s, Lit(<<"(", "B">>), "SetUSG0")

set_us_g1(s) == tag_parser(s, Lit(<<")", "B">>), "SetUSG1")

set_g0_special(s) == tag_parser(s, Lit(<<"(", "0">>), "SetG0SpecialChars")

set_g1_special(s) == tag_parser(s, Lit(<<")", "0">>), "SetG1SpecialChars")

set_g0_alternate(s) == tag_parser(s, Lit(<<"(", "1">>), "SetG0AlternateChar")

set_g1_alternate(s) == tag_parser(s, Lit(<<")", "1">>), "SetG1AlternateChar")

set_g0_graph(s) == tag_parser(s, Lit(<<"(", "2">>), "SetG0AltAndSpecialGraph")

set_g1_graph(s) == tag_parser(s, Lit(<<")", "2">>), "SetG1AltAndSpecialGraph")

set_single_shift2(s) == tag_parser(s, Lit(<<"N">>), "SetSingleShift2")

set_single_shift3(s) == tag_parser(s, Lit(<<"O">>), "SetSingleShift3")

body(s) ==
    FirstOk(
        <<FirstOk(<<escape(s), cursor_pos(s), cursor_up(s), cursor_down(s),
                    cursor_forward(s), cursor_backward(s), cursor_save(s),
                    cursor_restore(s), erase_full_display(s), erase_in_display(s),
                    erase_line(s), graphics_mode(s), set_mode(s), reset_mode(s),
                    hide_cursor(s), show_cursor(s), cursor_to_app(s),
                    set_new_line_mode(s), set_col_132(s), set_smooth_scroll(s),
                    set_reverse_video(s)>>),
          FirstOk(<<set_auto_wrap(s), set_origin_rel(s), set_auto_repeat(s),
                    set_interlacing(s), set_linefeed(s), set_cursorkey(s),
                    set_vt52(s), set_col80(s), set_jump_scroll(s),
                    set_normal_video(s), set_origin_abs(s), reset_auto_wrap(s),
                    reset_auto_repeat(s), reset_interlacing(s),
                    set_top_and_bottom(s), set_alternate_keypad(s),
                    set_numeric_keypad(s), set_uk_g0(s), set_uk_g1(s),
                    set_us_g0(s), set_us_g1(s)>>),
          set_g0_special(s), set_g1_special(s), set_g0_alternate(s),
          set_g1_alternate(s), set_g0_graph(s), set_g1_graph(s),
          set_single_shift2(s), set_single_shift3(s), enable_bracketed_paste(s),
          disable_bracketed_paste(s), enable_cursor_blink(s),
          disable_cursor_blink(s), cursor_reset_style(s)>>)

\* preceded(tag(ESC), body)
ansi_parse(s) == IF HasTag(s, <<ESC>>) THEN body(Drop(s, 1)) ELSE Fail

-----------------------------------------------------------------------------
(* AnsiParser: the iterator over a byte slice.                             *)

\* Output::Bytes(b) and Output::Escape(code)
BytesTok(b) == [tag |-> "Bytes", bytes |-> b, kind |-> "", p |-> <<>>]

EscapeTok(kind, p) == [tag |-> "Escape", bytes |-> <<>>, kind |-> kind, p |-> p]

\* haystack.windows(needle.len()).position(|w| w == needle), 0-based
find_in_slice(haystack, needle) ==
    LET hits == {i \in 0..(Len(haystack) - Len(needle)) :
                    SubSeq(haystack, i + 1, i + Len(needle)) = needle}
    IN  IF hits = {} THEN [some |-> FALSE, i |-> 0]
        ELSE [some |-> TRUE, i |-> CHOOSE i \in hits : \A j \in hits : i <= j]

\* Some(token) with the slice left, and None
Yield(item, rest) == [some |-> TRUE, item |-> item, rest |-> rest]

NoItem == [some |-> FALSE, item |-> BytesTok(<<>>), rest |-> <<>>]

\* Unmatched without the "let i = i + 1": the span stops one byte short
Unmatched_short(sl, pos) ==
    IF pos.some THEN Yield(BytesTok(Take(sl, pos.i)), Drop(sl, pos.i))
    ELSE Yield(BytesTok(sl), <<>>)

\* the arm of an ESC no rule matches: the bytes up to the next ESC, or all
Unmatched(sl, pos) ==
    IF pos.some THEN Yield(BytesTok(Take(sl, pos.i + 1)), Drop(sl, pos.i + 1))
    ELSE Yield(BytesTok(sl), <<>>)

\* AtEscape with `self.slice = rest` left out
AtEscape_keeps_slice(sl, res) ==
    IF res.ok THEN Yield(EscapeTok(res.kind, res.p), sl)
    ELSE Unmatched(sl, find_in_slice(Drop(sl, 1), <<ESC>>))

\* the arm Some(0): the slice starts with an ESC, res is ansi_parse(slice)
AtEscape(sl, res) ==
    IF res.ok THEN Yield(EscapeTok(res.kind, res.p), res.rest)
    ELSE Unmatched(sl, find_in_slice(Drop(sl, 1), <<ESC>>))

\* NextAt with the no-ESC arm handing out one byte per call
NextAt_byte_at_a_time(sl, at) ==
    IF at.some /\ at.i = 0 THEN AtEscape(sl, ansi_parse(sl))
    ELSE IF at.some THEN Yield(BytesTok(Take(sl, at.i)), Drop(sl, at.i))
    ELSE Yield(BytesTok(Take(sl, 1)), Drop(sl, 1))

\* the match on find_in_slice(slice, ESC)
NextAt(sl, at) ==
    IF at.some /\ at.i = 0 THEN AtEscape(sl, ansi_parse(sl))
    ELSE IF at.some THEN Yield(BytesTok(Take(sl, at.i)), Drop(sl, at.i))
    ELSE Yield(BytesTok(sl), <<>>)

\* AnsiParser::next on the remaining slice sl: [some, item, rest]
next(sl) == IF sl = <<>> THEN NoItem ELSE NextAt(sl, find_in_slice(sl, <<ESC>>))

\* AnsiParser::new(chunk).collect(): every token of a chunk, in order
RECURSIVE Collect(_)
CollectFrom(r) == IF r.some THEN <<r.item>> \o Collect(r.rest) ELSE <<>>

Collect(sl) == CollectFrom(next(sl))


-----------------------------------------------------------------------------
(* The byte slices the lexer is run on.                                    *)

SeqsUpTo(S, n) == UNION {[1..k -> S] : k \in 0..n}

\* ESC [ 1 ; A m x and a newline
LexAlphabet == {ESC} \cup {Ord[c] : c \in {"[", "1", ";", "A", "m", "x"}}

\* what may follow a sequence in the same slice
Suffixes == {<<>>, Lit(<<"x">>), <<ESC>>}

\* the literal codes of the tag_parser! table
TagLiterals ==
    {Lit(<<"[", "m">>), Lit(<<"[", "s">>),
     Lit(<<"[", "u">>), Lit(<<"[", "J">>),
     Lit(<<"[", "2", "J">>), Lit(<<"[", "K">>),
     Lit(<<"[", "?", "2", "0", "0", "4", "h">>), Lit(<<"[", "?", "2", "0", "0", "4", "l">>),
     Lit(<<"[", "?", "1", "2", "h">>), Lit(<<"[", "?", "1", "2", "l">>),
     Lit(<<"[", "?", "2", "5", "l">>), Lit(<<"[", "?", "2", "5", "h">>),
     Lit(<<"[", "?", "1", "h">>), Lit(<<"[", "2", "0", "h">>),
     Lit(<<"[", "?", "3", "h">>), Lit(<<"[", "?", "4", "h">>),
     Lit(<<"[", "?", "5", "h">>), Lit(<<"[", "?", "6", "h">>),
     Lit(<<"[", "?", "7", "h">>), Lit(<<"[", "?", "8", "h">>),
     Lit(<<"[", "?", "9", "h">>), Lit(<<"[", "2", "0", "l">>),
     Lit(<<"[", "?", "1", "l">>), Lit(<<"[", "?", "2", "l">>),
     Lit(<<"[", "?", "3", "l">>), Lit(<<"[", "?", "4", "l">>),
     Lit(<<"[", "?", "5", "l">>), Lit(<<"[", "?", "6", "l">>),
     Lit(<<"[", "?", "7", "l">>), Lit(<<"[", "?", "8", "l">>),
     Lit(<<"[", "?", "9", "l">>), Lit(<<"=">>),
     Lit(<<">">>), Lit(<<"(", "A">>),
     Lit(<<")", "A">>), Lit(<<"(", "B">>),
     Lit(<<")", "B">>), Lit(<<"(", "0">>),
     Lit(<<")", "0">>), Lit(<<"(", "1">>),
     Lit(<<")", "1">>), Lit(<<"(", "2">>),
     Lit(<<")", "2">>), Lit(<<"N">>),
     Lit(<<"O">>)}

TagInputs == {<<ESC>> \o t \o suf : t \in TagLiterals, suf \in Suffixes}

\* digit runs of the relative cursor moves; the last one exceeds u32
CursorRuns ==
    {<<>>, Lit(<<"1">>), Lit(<<"1", "2">>), Lit(<<"0", "0", "7">>),
     Lit(<<"9", "9", "9", "9", "9", "9", "9", "9", "9", "9", "9">>)}

MoveLetters == {Ord[c] : c \in {"A", "B", "C", "D"}}

MoveInput(run, x) == <<ESC>> \o Lit(<<"[">>) \o run \o <<x>>

CursorMoveInputs ==
    {MoveInput(run, x) \o suf : run \in CursorRuns, x \in MoveLetters, suf \in Suffixes}

\* the decimal digits of a value 0..255
Digits(v) ==
    IF v < 10 THEN <<48 + v>>
    ELSE IF v < 100 THEN <<48 + (v \div 10), 48 + (v % 10)>>
    ELSE <<48 + (v \div 100), 48 + ((v \div 10) % 10), 48 + (v % 10)>>

RECURSIVE JoinParams(_)
JoinParams(runs) ==
    IF Len(runs) = 1 THEN runs[1]
    ELSE runs[1] \o Lit(<<";">>) \o JoinParams(Tail(runs))

\* ESC [ run ; .. ; run m
SgrInputOfRuns(runs) == <<ESC>> \o Lit(<<"[">>) \o JoinParams(runs) \o Lit(<<"m">>)

SgrInput(ps) == SgrInputOfRuns([i \in 1..Len(ps) |-> Digits(ps[i])])

SgrValues == {0, 38, 255}

\* the parameter lists of the graphics-rendition inputs
SgrTuples ==
    UNION {[1..k -> SgrValues] : k \in 1..5}
        \cup {<<38, 5, 196>>, <<48, 5, 21>>, <<38, 2, 10, 20, 30>>, <<48, 2, 10, 20, 30>>,
              <<39>>, <<49>>}

SgrInputs == {SgrInput(ps) \o suf : ps \in SgrTuples, suf \in Suffixes}

\* graphics-rendition look-alikes: an empty slot, a value over 255, leading
\* zeros, six parameters
SgrOddInputs ==
    {SgrInputOfRuns(runs) : runs \in
        {<<<<>>, Lit(<<"5">>)>>, <<Lit(<<"5">>), <<>>>>, <<Lit(<<"2", "5", "6">>)>>,
         <<Lit(<<"0", "0", "7">>)>>, <<Lit(<<"1", "2", "3", "4">>)>>,
         [i \in 1..6 |-> Lit(<<"0">>)]}}

OtherInputs ==
    {<<ESC>> \o Lit(cs) \o suf : cs \in
        {<<"[", "H">>, <<"[", "1", ";", "2", "H">>, <<"[", "1", "2", "f">>,
         <<"[", ";", "2", "H">>, <<"[", "=", "1", "h">>, <<"[", "=", "7", "l">>,
         <<"[", "1", ";", "2", "r">>, <<"[", "?", "2", "h">>, <<"[", "2">>},
       suf \in Suffixes}

LexInputs ==
    SeqsUpTo(LexAlphabet, MaxInputLen) \cup TagInputs \cup CursorMoveInputs
        \cup SgrInputs \cup SgrOddInputs \cup OtherInputs

-----------------------------------------------------------------------------
(* The state after construction.                                           *)

Rgb(r, g, b) == [variant |-> "Rgb", r |-> r, g |-> g, b |-> b]

default_fg == Rgb(255, 255, 255)

default_bg == Rgb(30, 30, 30)

\* no token yet
NoToken == [tag |-> "None", bytes |-> <<>>, kind |-> "", p |-> <<>>]

\* Brush::default
BrushDefault == [pos |-> <<1, 1>>, fg_color |-> default_fg, bg_color |-> default_bg]

ScreenInit ==
    /\ grid = <<>>
    /\ brush = BrushDefault
    /\ status = "running"
    /\ fed = 0
    /\ last = NoToken
    /\ shrunk = FALSE

\* Screen::new: no descriptor yet, nothing written
EngineInit ==
    /\ delivered = <<>>
    /\ handle = FALSE
    /\ written = <<>>
    /\ received = <<>>
    /\ write_failed = FALSE

\* before pcomms is polled: no task runs, the channels are empty
BridgeIdle ==
    /\ rd = [pc |-> "unspawned", held |-> <<>>]
    /\ tx = <<>>
    /\ fw = [pc |-> "init", held |-> <<>>]
    /\ out = <<>>
    /\ reads = <<>>
    /\ sends = 0

-----------------------------------------------------------------------------
(* The lexer run on one slice: AnsiParser::new, then next() until None.    *)

InitLexer ==
    /\ input \in LexInputs
    /\ slice = input
    /\ items = <<>>
    /\ ended = FALSE
    /\ ScreenInit
    /\ overflow_checks = TRUE
    /\ EngineInit
    /\ BridgeIdle

\* one call of next(): r is what it returns
Returned(r) ==
    /\ items' = IF r.some THEN Append(items, r.item) ELSE items
    /\ slice' = r.rest
    /\ ended' = ~r.some

IteratorNext ==
    /\ ~ended
    /\ Returned(next(slice))
    /\ UNCHANGED <<input, screenVars, bridgeVars, engineVars>>

NextLexer == IteratorNext

SpecLexer == InitLexer /\ [][NextLexer]_vars

-----------------------------------------------------------------------------
(* The terminal state machine.  A screen state is [grid, brush, status].   *)
(*                                                                         *)
(* usize values are held as their residues around 0: a negative -k stands  *)
(* for 2^64 - k, the value `0 - k` wraps to when the build does not check  *)
(* overflow.  With overflow checks the same operation panics.              *)

ROWS == 37

\* a - b (a + b) leaves the range of usize
WrapsBelow(a, b) == a >= 0 /\ a - b < 0

WrapsAbove(a, b) == a < 0 /\ a + b >= 0

\* Cell::empty
CellEmpty == [c |-> 32, fg_color |-> default_fg, bg_color |-> default_bg]

\* Vec growth by `while i >= len { push(default) }` for a 0-based index i
GrownTo(v, i, fill) == v \o [k \in 1..(i + 1 - Len(v)) |-> fill]

\* `let i = n - 1; while i >= v.len() { v.push(fill) }`: the subtraction
\* panics under overflow checks; a wrapped index makes the loop push until
\* memory is exhausted and the process aborts.
GetOrInsert(v, n, fill) ==
    IF WrapsBelow(n, 1) /\ overflow_checks THEN [status |-> "panicked", v |-> v]
    ELSE IF n - 1 < 0 THEN [status |-> "aborted", v |-> v]
    ELSE [status |-> "running", v |-> GrownTo(v, n - 1, fill)]

\* Grid::get_or_insert(y): the rows after it
Grid_get_or_insert(rows, y) == GetOrInsert(rows, y, <<>>)

\* GridRow::get_or_insert(x): the cells after it
GridRow_get_or_insert(cells, x) == GetOrInsert(cells, x, CellEmpty)

PaintedCell(b, ch) == [c |-> ch, fg_color |-> b.fg_color, bg_color |-> b.bg_color]

\* the tail of Grid::paint: cs is what GridRow::get_or_insert(x) left
PaintCell(st, ch, rows, cs) ==
    IF cs.status # "running" THEN [st EXCEPT !.grid = rows, !.status = cs.status]
    ELSE [st EXCEPT !.grid = [rows EXCEPT ![st.brush.pos[2]] =
                        [cs.v EXCEPT ![st.brush.pos[1]] = PaintedCell(st.brush, ch)]]]

\* Grid::paint after Grid::get_or_insert(y) left rs
PaintRow(st, ch, rs) ==
    IF rs.status # "running" THEN [st EXCEPT !.grid = rs.v, !.status = rs.status]
    ELSE PaintCell(st, ch, rs.v,
                   GridRow_get_or_insert(rs.v[st.brush.pos[2]], st.brush.pos[1]))

\* Grid::paint
Grid_paint(st, ch) == PaintRow(st, ch, Grid_get_or_insert(st.grid, st.brush.pos[2]))

\* `pos.0 += d` and `pos.1 += d` (i = 1 the column, i = 2 the row)
PosAdd(st, i, d) ==
    IF WrapsAbove(st.brush.pos[i], d) /\ overflow_checks
    THEN [st EXCEPT !.status = "panicked"]
    ELSE [st EXCEPT !.brush.pos[i] = @ + d]

\* `pos.0 -= 1`
PosSub(st, i, d) ==
    IF WrapsBelow(st.brush.pos[i], d) /\ overflow_checks
    THEN [st EXCEPT !.status = "panicked"]
    ELSE [st EXCEPT !.brush.pos[i] = @ - d]

\* the arm `_` of the match on a char: paint, then `pos.0 += 1`
PaintAndAdvance(painted) ==
    IF painted.status # "running" THEN painted ELSE PosAdd(painted, 1, 1)

\* HandleChar with the newline also returning to column 1
HandleChar_newline_returns(st, ch) ==
    IF st.status # "running" THEN st
    ELSE CASE ch = 10  -> PosAdd([st EXCEPT !.brush.pos[1] = 1], 2, 1)
           [] ch = 13  -> [st EXCEPT !.brush.pos[1] = 1]
           [] ch = 9   -> PosAdd(st, 1, 4)
           [] ch = ESC -> st
           [] ch = 8   -> PosSub(st, 1, 1)
           [] OTHER    -> PaintAndAdvance(Grid_paint(st, ch))

\* the body of `for char in parsed.chars()`
HandleChar(st, ch) ==
    IF st.status # "running" THEN st
    ELSE CASE ch = 10  -> PosAdd(st, 2, 1)
           [] ch = 13  -> [st EXCEPT !.brush.pos[1] = 1]
           [] ch = 9   -> PosAdd(st, 1, 4)
           [] ch = ESC -> st
           [] ch = 8   -> PosSub(st, 1, 1)
           [] OTHER    -> PaintAndAdvance(Grid_paint(st, ch))

RECURSIVE HandleChars(_, _)
HandleChars(st, chars) ==
    IF chars = <<>> THEN st
    ELSE HandleChars(HandleChar(st, Head(chars)), Tail(chars))

-----------------------------------------------------------------------------
(* String::from_utf8: [ok, chars], the code points of a well-formed byte   *)
(* sequence.                                                               *)

IsCont(b) == b >= 128 /\ b <= 191

\* the length of the sequence a lead byte starts, 0 for a byte that starts none
Utf8Width(b) ==
    IF b < 128 THEN 1
    ELSE IF b >= 194 /\ b <= 223 THEN 2
    ELSE IF b >= 224 /\ b <= 239 THEN 3
    ELSE IF b >= 240 /\ b <= 244 THEN 4
    ELSE 0

\* the range of the second byte, which excludes overlong forms, surrogates
\* and code points above U+10FFFF
SecondOk(b0, b1) ==
    CASE b0 = 224 -> b1 >= 160 /\ b1 <= 191
      [] b0 = 237 -> b1 >= 128 /\ b1 <= 159
      [] b0 = 240 -> b1 >= 144 /\ b1 <= 191
      [] b0 = 244 -> b1 >= 128 /\ b1 <= 143
      [] OTHER    -> IsCont(b1)

Utf8WellFormed(bs, w) ==
    /\ w >= 1
    /\ Len(bs) >= w
    /\ w >= 2 => SecondOk(bs[1], bs[2])
    /\ \A i \in 3..w : IsCont(bs[i])

Utf8Scalar(bs, w) ==
    CASE w = 1 -> bs[1]
      [] w = 2 -> (bs[1] - 192) * 64 + (bs[2] - 128)
      [] w = 3 -> (bs[1] - 224) * 4096 + (bs[2] - 128) * 64 + (bs[3] - 128)
      [] w = 4 -> (bs[1] - 240) * 262144 + (bs[2] - 128) * 4096
                    + (bs[3] - 128) * 64 + (bs[4] - 128)

Utf8Cons(ch, more) == [ok |-> more.ok, chars |-> <<ch>> \o more.chars]

RECURSIVE from_utf8(_)
from_utf8(bs) ==
    IF bs = <<>> THEN [ok |-> TRUE, chars |-> <<>>]
    ELSE IF ~Utf8WellFormed(bs, Utf8Width(bs[1])) THEN [ok |-> FALSE, chars |-> <<>>]
    ELSE Utf8Cons(Utf8Scalar(bs, Utf8Width(bs[1])), from_utf8(Drop(bs, Utf8Width(bs[1]))))

-----------------------------------------------------------------------------
(* Screen::handle_bytes and Screen::handle_ansi.                           *)

\* as HandleParsed, but the characters decoded before the malformed byte are
\* handled
HandleParsed_valid_prefix(st, parsed) == HandleChars(st, parsed.chars)

\* the arm `_` of handle_bytes: parsed is String::from_utf8(bytes)
HandleParsed(st, parsed) == IF parsed.ok THEN HandleChars(st, parsed.chars) ELSE st

\* Screen::handle_bytes.  Screen.contents is never pushed to, so the pop of
\* its last line in the third arm finds none.
handle_bytes(st, bytes) ==
    CASE bytes = <<7>> -> st
      [] bytes = <<8>> -> st
      [] bytes = <<8, 27, 91, 75>> -> st
      [] OTHER -> HandleParsed(st, from_utf8(bytes))

\* `while row.cells.len() > x { row.cells.pop() }` for x = pos.0 - 1
Truncated(cells, x) == IF x >= 0 /\ Len(cells) > x THEN Take(cells, x) ELSE cells

\* Grid::erase_line after Grid::get_or_insert(y) left rs
EraseLineIn(st, rs) ==
    IF rs.status # "running" THEN [st EXCEPT !.grid = rs.v, !.status = rs.status]
    ELSE IF WrapsBelow(st.brush.pos[1], 1) /\ overflow_checks
         THEN [st EXCEPT !.grid = rs.v, !.status = "panicked"]
    ELSE [st EXCEPT !.grid = [rs.v EXCEPT ![st.brush.pos[2]] =
                        Truncated(@, st.brush.pos[1] - 1)]]

\* Grid::erase_line
Grid_erase_line(st) == EraseLineIn(st, Grid_get_or_insert(st.grid, st.brush.pos[2]))

\* the cells set to a space, their colors kept
Blanked_keeps_colors(cells) == [k \in 1..Len(cells) |-> [cells[k] EXCEPT !.c = 32]]

\* the rows cleared instead of blanked
Blanked_emptied(cells) == <<>>

Blanked(cells) == [k \in 1..Len(cells) |-> CellEmpty]

\* one turn of the loop of Grid::erase_display_from, for row y + i
EraseRow(st, rs, n) ==
    IF rs.status # "running" THEN [st EXCEPT !.grid = rs.v, !.status = rs.status]
    ELSE [st EXCEPT !.grid = [rs.v EXCEPT ![n] = Blanked(@)]]

RECURSIVE EraseRows(_, _)
EraseRows(st, i) ==
    IF i = ROWS \/ st.status # "running" THEN st
    ELSE EraseRows(EraseRow(st, Grid_get_or_insert(st.grid, st.brush.pos[2] + i),
                            st.brush.pos[2] + i),
                   i + 1)

\* Grid::erase_display_from
Grid_erase_display_from(st) == EraseRows(st, 0)

\* window taking the first rows instead of the last
window_from_top(rows, height) ==
    IF height > Len(rows) THEN rows ELSE SubSeq(rows, 1, height)

\* State::window: the last `height` rows of the grid, or all of them
window(rows, height) ==
    IF height > Len(rows) THEN rows ELSE SubSeq(rows, Len(rows) - height + 1, Len(rows))

\* ansi_colours::rgb_from_ansi256: the xterm palette
CubeLevel(i) == IF i = 0 THEN 0 ELSE 55 + 40 * i

SystemColours ==
    <<Rgb(0, 0, 0), Rgb(205, 0, 0), Rgb(0, 205, 0), Rgb(205, 205, 0),
      Rgb(0, 0, 238), Rgb(205, 0, 205), Rgb(0, 205, 205), Rgb(229, 229, 229),
      Rgb(127, 127, 127), Rgb(255, 0, 0), Rgb(0, 255, 0), Rgb(255, 255, 0),
      Rgb(92, 92, 255), Rgb(255, 0, 255), Rgb(0, 255, 255), Rgb(255, 255, 255)>>

rgb_from_ansi256(id) ==
    IF id < 16 THEN SystemColours[id + 1]
    ELSE IF id < 232
         THEN Rgb(CubeLevel((id - 16) \div 36), CubeLevel(((id - 16) \div 6) % 6),
                  CubeLevel((id - 16) % 6))
    ELSE Rgb(8 + 10 * (id - 232), 8 + 10 * (id - 232), 8 + 10 * (id - 232))

\* Brush::reset_color
reset_color(st) == [st EXCEPT !.brush.fg_color = default_fg, !.brush.bg_color = default_bg]

\* TermColor::Ansi(id)
Ansi(id) == [variant |-> "Ansi", id |-> id]

\* SetGraphicsMode with the palette arms keeping the index
SetGraphicsMode_stores_index(st, p) ==
    CASE p[1] = 1 /\ p[2] = 0 -> reset_color(st)
      [] p[1] = 1 /\ p[2] = 39 -> [st EXCEPT !.brush.fg_color = default_fg]
      [] p[1] = 1 /\ p[2] = 49 -> [st EXCEPT !.brush.bg_color = default_bg]
      [] p[1] = 3 /\ p[2] = 38 /\ p[3] = 5 ->
            [st EXCEPT !.brush.fg_color = Ansi(p[4])]
      [] p[1] = 3 /\ p[2] = 48 /\ p[3] = 5 ->
            [st EXCEPT !.brush.bg_color = Ansi(p[4])]
      [] p[1] = 5 /\ p[2] = 38 /\ p[3] = 2 ->
            [st EXCEPT !.brush.fg_color = Rgb(p[4], p[5], p[6])]
      [] p[1] = 5 /\ p[2] = 48 /\ p[3] = 2 ->
            [st EXCEPT !.brush.bg_color = Rgb(p[4], p[5], p[6])]
      [] OTHER -> st

\* SetGraphicsMode with the reset arm matching any parameter count
SetGraphicsMode_any_count(st, p) ==
    CASE p[2] = 0 -> reset_color(st)
      [] p[1] = 1 /\ p[2] = 39 -> [st EXCEPT !.brush.fg_color = default_fg]
      [] p[1] = 1 /\ p[2] = 49 -> [st EXCEPT !.brush.bg_color = default_bg]
      [] p[1] = 3 /\ p[2] = 38 /\ p[3] = 5 ->
            [st EXCEPT !.brush.fg_color = rgb_from_ansi256(p[4])]
      [] p[1] = 3 /\ p[2] = 48 /\ p[3] = 5 ->
            [st EXCEPT !.brush.bg_color = rgb_from_ansi256(p[4])]
      [] p[1] = 5 /\ p[2] = 38 /\ p[3] = 2 ->
            [st EXCEPT !.brush.fg_color = Rgb(p[4], p[5], p[6])]
      [] p[1] = 5 /\ p[2] = 48 /\ p[3] = 2 ->
            [st EXCEPT !.brush.bg_color = Rgb(p[4], p[5], p[6])]
      [] OTHER -> st

\* the SetGraphicsMode arms of handle_ansi, in order: p = <<n, a, b, c, d, e>>
SetGraphicsMode(st, p) ==
    CASE p[1] = 1 /\ p[2] = 0 -> reset_color(st)
      [] p[1] = 1 /\ p[2] = 39 -> [st EXCEPT !.brush.fg_color = default_fg]
      [] p[1] = 1 /\ p[2] = 49 -> [st EXCEPT !.brush.bg_color = default_bg]
      [] p[1] = 3 /\ p[2] = 38 /\ p[3] = 5 ->
            [st EXCEPT !.brush.fg_color = rgb_from_ansi256(p[4])]
      [] p[1] = 3 /\ p[2] = 48 /\ p[3] = 5 ->
            [st EXCEPT !.brush.bg_color = rgb_from_ansi256(p[4])]
      [] p[1] = 5 /\ p[2] = 38 /\ p[3] = 2 ->
            [st EXCEPT !.brush.fg_color = Rgb(p[4], p[5], p[6])]
      [] p[1] = 5 /\ p[2] = 48 /\ p[3] = 2 ->
            [st EXCEPT !.brush.bg_color = Rgb(p[4], p[5], p[6])]
      [] OTHER -> st

\* handle_ansi with the partial erase-display arm erasing as well
handle_ansi_partial_erases(st, ac) ==
    CASE ac.kind = "EraseLine" -> Grid_erase_line(st)
      [] ac.kind = "EraseDisplay" -> Grid_erase_display_from(st)
      [] ac.kind = "EraseAllDisplay" -> Grid_erase_display_from(st)
      [] ac.kind = "CursorSave" -> st
      [] ac.kind = "SetGraphicsMode" -> SetGraphicsMode(st, ac.p)
      [] OTHER -> st

\* Screen::handle_ansi
handle_ansi(st, ac) ==
    CASE ac.kind = "EraseLine" -> Grid_erase_line(st)
      [] ac.kind = "EraseDisplay" -> st
      [] ac.kind = "EraseAllDisplay" -> Grid_erase_display_from(st)
      [] ac.kind = "CursorSave" -> st
      [] ac.kind = "SetGraphicsMode" -> SetGraphicsMode(st, ac.p)
      [] OTHER -> st

\* one turn of the second loop of Screen::handle_output
HandleOne(st, output) ==
    IF output.tag = "Bytes" THEN handle_bytes(st, output.bytes)
    ELSE handle_ansi(st, output)

\* Screen::handle_output: the tokens of a batch in order; a panic ends it
RECURSIVE handle_output(_, _)
handle_output(st, outputs) ==
    IF outputs = <<>> \/ st.status # "running" THEN st
    ELSE handle_output(HandleOne(st, Head(outputs)), Tail(outputs))

-----------------------------------------------------------------------------
(* The tokens the state machine is fed: each is a token the lexer returns. *)

\* A, newline, carriage return, tab, backspace, the two bytes of U+00E9, ESC
SpanBytes == {65, 10, 13, 9, 8, 195, 169, ESC}

\* "A\nB\rC"
ExampleSpan == <<65, 10, 66, 13, 67>>

\* the literal spans (the bell among them): the byte sequences the lexer
\* returns as one literal token (written as a set of elements, which is
\* enumerated once)
Spans ==
    {s : s \in {b \in (SeqsUpTo(SpanBytes, MaxFeed) \ {<<>>}) \cup {<<7>>} :
                    Collect(b) = <<BytesTok(b)>>}}

CodeInputs ==
    {<<ESC>> \o Lit(cs) : cs \in
        {<<"[", "K">>, <<"[", "2", "J">>, <<"[", "J">>, <<"[", "s">>, <<"[", "u">>,
         <<"[", "m">>, <<"[", "A">>, <<"[", "2", "B">>, <<"[", "1", ";", "1", "H">>,
         <<"[", "?", "2", "5", "l">>, <<"[", "=", "1", "h">>, <<"[", "=", "7", "l">>,
         <<"[", "1", ";", "2", "r">>, <<"(", "B">>, <<"=">>}}
      \cup {<<ESC, ESC>>}
      \cup {SgrInput(ps) : ps \in
              {<<0>>, <<39>>, <<49>>, <<7>>, <<38, 5, 196>>, <<48, 5, 21>>,
               <<38, 2, 10, 20, 30>>, <<48, 2, 10, 20, 30>>, <<0, 0>>, <<38, 5>>,
               <<38, 2, 10>>, <<38, 5, 196, 0>>, <<38, 5, 196, 0, 0>>, <<39, 0, 0>>}}

Codes == {Collect(i)[1] : i \in CodeInputs}

\* the spans of at most n bytes, and the example while nothing was fed
SpansWithin == [n \in 0..MaxFeed |-> {b \in Spans : Len(b) <= n}]

SpansNow ==
    IF fed = 0 THEN SpansWithin[MaxFeed] \cup {ExampleSpan}
    ELSE IF fed < MaxFeed THEN SpansWithin[MaxFeed - fed]
    ELSE {}

-----------------------------------------------------------------------------
(* The state machine fed token by token: Screen::handle_output calls       *)
(* handle_bytes or handle_ansi for each token of a batch, in order.        *)

Screen == [grid |-> grid, brush |-> brush, status |-> status]

Becomes(st) ==
    /\ grid' = st.grid
    /\ brush' = st.brush
    /\ status' = st.status

\* a row of the grid is shorter in screen `after` than it is now
Shorter(after) ==
    \E r \in 1..Len(grid) :
        r > Len(after.grid) \/ Len(after.grid[r]) < Len(grid[r])

\* what is remembered of the token applied last
Applied(tok, after) ==
    /\ last' = tok
    /\ shrunk' = Shorter(after)

InitScreen ==
    /\ input = <<>>
    /\ slice = <<>>
    /\ items = <<>>
    /\ ended = FALSE
    /\ ScreenInit
    /\ overflow_checks \in BOOLEAN
    /\ EngineInit
    /\ BridgeIdle

HandleBytesOf(b) ==
    /\ status = "running"
    /\ Becomes(handle_bytes(Screen, b))
    /\ fed' = fed + Len(b)
    /\ Applied(BytesTok(b), handle_bytes(Screen, b))
    /\ UNCHANGED <<lexerVars, overflow_checks, bridgeVars, engineVars>>

HandleAnsiOf(ac) ==
    /\ status = "running"
    /\ fed + 1 <= MaxFeed
    /\ Becomes(handle_ansi(Screen, ac))
    /\ fed' = fed + 1
    /\ Applied(ac, handle_ansi(Screen, ac))
    /\ UNCHANGED <<lexerVars, overflow_checks, bridgeVars, engineVars>>

HandleBytes == \E b \in SpansNow : HandleBytesOf(b)

HandleAnsi == \E ac \in Codes : HandleAnsiOf(ac)

NextScreen == HandleBytes \/ HandleAnsi

SpecScreen == InitScreen /\ [][NextScreen]_vars

-----------------------------------------------------------------------------
(* The PTY bridge, pcomms: the read loop lexes each chunk it reads and      *)
(* sends the batch into a bounded channel; the forwarding loop moves each   *)
(* batch into the channel of the stream, from which the engine calls        *)
(* Screen::update.  Every step needs the process to be alive.               *)

\* the chunks a read returns: "A", and ESC[38;5;196m followed by "B"
Chunks == {<<65>>, SgrInput(<<38, 5, 196>>) \o <<66>>}

InitMsg == [tag |-> "Init", batch |-> <<>>]

OutputMsg(batch) == [tag |-> "Output", batch |-> batch]

\* the start of the stream: Message::Init is sent, then the read loop is
\* spawned and the forwarding loop entered
PcommsStart ==
    /\ status = "running"
    /\ fw.pc = "init"
    /\ out' = Append(out, InitMsg)
    /\ fw' = [pc |-> "recv", held |-> <<>>]
    /\ rd' = [pc |-> "read", held |-> <<>>]
    /\ UNCHANGED <<tx, reads, sends, lexerVars, screenVars, engineVars>>

\* rhandle.read returned Ok(n) with the bytes c, n = 0 at the end of the
\* stream: the chunk is lexed in full
ReadOk(c) ==
    /\ reads' = Append(reads, [kind |-> IF c = <<>> THEN "eof" ELSE "data", bytes |-> c])
    /\ rd' = [pc |-> "send", held |-> Collect(c)]
    /\ UNCHANGED <<tx, fw, out, sends, lexerVars, screenVars, engineVars>>

ReadLoopRead ==
    /\ status = "running"
    /\ rd.pc = "read"
    /\ Len(reads) < MaxReads
    /\ \E c \in Chunks \cup {<<>>} : ReadOk(c)

\* rhandle.read returned Err: unwrap panics in the spawned task, which ends
\* the task and, depending on the executor, the process
ReadLoopFail ==
    /\ status = "running"
    /\ rd.pc = "read"
    /\ Len(reads) < MaxReads
    /\ reads' = Append(reads, [kind |-> "err", bytes |-> <<>>])
    /\ rd' = [pc |-> "dead", held |-> <<>>]
    /\ status' \in {"running", "aborted"}
    /\ UNCHANGED <<tx, fw, out, sends, lexerVars, grid, brush, overflow_checks, fed,
                   last, shrunk, engineVars>>

\* as Sent, but the channel takes the batch at its head
Sent_at_head(batch) == tx' = <<batch>> \o tx

\* the channel with the batch sent into it
Sent(batch) == tx' = Append(tx, batch)

\* as HasPermit, for a channel without bound
HasPermit_unbounded(queue) == TRUE

\* the bounded channel has room: send completes only then
HasPermit(queue) == Len(queue) < QueueCapacity

\* tx.send(items).await
ReadLoopSend ==
    /\ status = "running"
    /\ rd.pc = "send"
    /\ HasPermit(tx)
    /\ Sent(rd.held)
    /\ sends' = sends + 1
    /\ rd' = [pc |-> "read", held |-> <<>>]
    /\ UNCHANGED <<fw, out, reads, lexerVars, screenVars, engineVars>>

\* rx.recv().await returned Some(msg)
ForwardRecv ==
    /\ status = "running"
    /\ fw.pc = "recv"
    /\ tx # <<>>
    /\ fw' = [pc |-> "send", held |-> Head(tx)]
    /\ tx' = Tail(tx)
    /\ UNCHANGED <<rd, out, reads, sends, lexerVars, screenVars, engineVars>>

\* output.send(Message::Output(msg)).await: the channel of the stream, made
\* with buffer 100, takes one message more than its buffer from its sender
ForwardSend ==
    /\ status = "running"
    /\ fw.pc = "send"
    /\ Len(out) < QueueCapacity + 1
    /\ out' = Append(out, OutputMsg(fw.held))
    /\ fw' = [pc |-> "flush", held |-> <<>>]
    /\ UNCHANGED <<rd, tx, reads, sends, lexerVars, screenVars, engineVars>>

\* output.flush().await
ForwardFlush ==
    /\ status = "running"
    /\ fw.pc = "flush"
    /\ fw' = [pc |-> "recv", held |-> <<>>]
    /\ UNCHANGED <<rd, tx, out, reads, sends, lexerVars, screenVars, engineVars>>

-----------------------------------------------------------------------------
(* Screen::update, called by the engine with one message at a time.         *)

\* Message::Init in the record of what was received
InitMark == [variant |-> "Init", val |-> <<>>]

Text(bytes) == [variant |-> "Text", val |-> bytes]

Bytes(bytes) == [variant |-> "Bytes", val |-> bytes]

Sigint == [variant |-> "Sigint", val |-> <<>>]

Key(named) == [variant |-> "Key", val |-> named]

\* Message::Init(handle)
OnInit ==
    /\ handle' = TRUE
    /\ received' = Append(received, InitMark)
    /\ UNCHANGED <<delivered, written, write_failed, screenVars>>

\* Message::Output(s)
OnOutput(batch) ==
    /\ Becomes(handle_output(Screen, batch))
    /\ delivered' = Append(delivered, batch)
    /\ UNCHANGED <<handle, written, received, write_failed, overflow_checks, fed,
                   last, shrunk>>

NoWrite == [some |-> FALSE, bytes |-> <<>>]

Write(bytes) == [some |-> TRUE, bytes |-> bytes]

\* as KeyBytes, with the backspace key sent as the backspace character
KeyBytes_backspace_is_bs(named) ==
    CASE named = "Enter" -> Write(<<10>>)
      [] named = "Space" -> Write(<<32>>)
      [] named = "Backspace" -> Write(<<8>>)
      [] named = "Escape" -> Write(<<27>>)
      [] OTHER -> NoWrite

\* `match named`: the bytes written for a key
KeyBytes(named) ==
    CASE named = "Enter" -> Write(<<10>>)
      [] named = "Space" -> Write(<<32>>)
      [] named = "Backspace" -> Write(<<127>>)
      [] named = "Escape" -> Write(<<27>>)
      [] OTHER -> NoWrite

\* `match c`: the bytes handle.write_all is called with
WritePayload(c) ==
    CASE c.variant = "Text" -> Write(c.val)
      [] c.variant = "Bytes" -> Write(c.val)
      [] c.variant = "Sigint" -> Write(<<3>>)
      [] c.variant = "Key" -> KeyBytes(c.val)

\* write_all(bytes): Ok with all bytes written, or Err after fewer
WriteAllResults(bytes) ==
    {[ok |-> TRUE, n |-> Len(bytes)]} \cup {[ok |-> FALSE, n |-> k] : k \in 0..(Len(bytes) - 1)}

\* write_all(..).unwrap() with the result res
WriteAll(payload, res) ==
    /\ written' = written \o Take(payload.bytes, res.n)
    /\ write_failed' = (write_failed \/ ~res.ok)
    /\ status' = IF res.ok THEN status ELSE "panicked"

\* Message::Write(c)
OnWrite(c) ==
    /\ received' = Append(received, c)
    /\ IF handle /\ WritePayload(c).some
       THEN \E res \in WriteAllResults(WritePayload(c).bytes) : WriteAll(WritePayload(c), res)
       ELSE UNCHANGED <<written, write_failed, status>>
    /\ UNCHANGED <<delivered, handle, grid, brush, overflow_checks, fed, last, shrunk>>

\* the engine takes the next message of the stream of pcomms
UpdateFromStream ==
    /\ status = "running"
    /\ out # <<>>
    /\ out' = Tail(out)
    /\ IF Head(out).tag = "Init" THEN OnInit ELSE OnOutput(Head(out).batch)
    /\ UNCHANGED <<rd, tx, fw, reads, sends, lexerVars>>

NextBridge ==
    \/ PcommsStart
    \/ ReadLoopRead
    \/ ReadLoopFail
    \/ ReadLoopSend
    \/ ForwardRecv
    \/ ForwardSend
    \/ ForwardFlush
    \/ UpdateFromStream

SpecBridge == InitScreen /\ [][NextBridge]_vars

\* the write requests of the keyboard and mouse subscriptions
Contents ==
    {Text(<<97>>), Bytes(<<ESC, 91, 83>>), Sigint,
     Key("Enter"), Key("Space"), Key("Backspace"), Key("Escape"), Key("Tab")}

\* Screen::update on its own: the one Message::Init of the stream, its
\* batches and the write requests, in any order
UpdateInit ==
    /\ status = "running"
    /\ ~handle
    /\ OnInit
    /\ UNCHANGED <<bridgeVars, lexerVars>>

UpdateOutput ==
    /\ status = "running"
    /\ Len(delivered) < MaxWrites
    /\ \E c \in Chunks : OnOutput(Collect(c))
    /\ UNCHANGED <<bridgeVars, lexerVars>>

\* the write requests among the messages ms
Requests(ms) == SelectSeq(ms, LAMBDA m : m.variant # "Init")

UpdateWrite ==
    /\ status = "running"
    /\ Len(Requests(received)) < MaxWrites
    /\ \E c \in Contents : OnWrite(c)
    /\ UNCHANGED <<bridgeVars, lexerVars>>

NextEngine == UpdateInit \/ UpdateOutput \/ UpdateWrite

SpecEngine == InitScreen /\ [][NextEngine]_vars

-----------------------------------------------------------------------------
(* Properties of the lexer, checked under SpecLexer.                       *)

NoEsc(s) == \A i \in 1..Len(s) : s[i] # ESC

\* the length of the literal an ESC is degraded to: that ESC and the bytes
\* after it up to, not including, the next ESC
LiteralSpanLen(sl) ==
    LET escs == {i \in 2..Len(sl) : sl[i] = ESC}
    IN  IF escs = {} THEN Len(sl)
        ELSE (CHOOSE i \in escs : \A j \in escs : i <= j) - 1

\* C1 as stated: a slice without ESC, the empty slice included, yields exactly
\* one literal token equal to the whole input.
C1_AsStated == (NoEsc(input) /\ ended) => items = <<BytesTok(input)>>

\* C1 amended: a non-empty slice without ESC yields exactly one token, the
\* literal of the whole input, and then ends; the empty slice yields no token.
C1_NoEscOneLiteral ==
    NoEsc(input) =>
        /\ (input # <<>> /\ items # <<>>) => (items = <<BytesTok(input)>> /\ slice = <<>>)
        /\ (input # <<>> /\ ended) => items # <<>>
        /\ input = <<>> => items = <<>>

C1_Witness ==
    /\ ended
    /\ NoEsc(input)
    /\ Len(input) >= 2
    /\ items = <<BytesTok(input)>>

MoveKind(x) ==
    CASE x = Ord["A"] -> "CursorUp"
      [] x = Ord["B"] -> "CursorDown"
      [] x = Ord["C"] -> "CursorForward"
      [] x = Ord["D"] -> "CursorBackward"

MoveAmount(run) == IF run = <<>> THEN 1 ELSE Decimal(run)

\* C2: ESC [ <n> X with X in A..D yields exactly one code of the kind of X
\* (up, down, forward, backward) carrying n, and 1 for an empty digit run.
C2_CursorMoves ==
    \A run \in {r \in CursorRuns : Len(r) <= 9}, x \in MoveLetters :
        (input = MoveInput(run, x) /\ items # <<>>) =>
            items = <<EscapeTok(MoveKind(x), <<MoveAmount(run)>>)>>

\* C3: at an ESC no rule matches, next() returns one literal, the ESC with the
\* bytes up to the next ESC (or the end), and lexing resumes at that ESC.
C3_UnmatchedEscIsLiteral ==
    [][(~ended /\ slice # <<>> /\ slice[1] = ESC /\ ~ansi_parse(slice).ok) =>
            /\ ~ended'
            /\ items' = Append(items, BytesTok(Take(slice, LiteralSpanLen(slice))))
            /\ slice' = Drop(slice, LiteralSpanLen(slice))
            /\ (slice' # <<>> => slice'[1] = ESC)]_vars

C3_Witness ==
    /\ Len(items) >= 2
    /\ items[1].tag = "Bytes"
    /\ Len(items[1].bytes) >= 2
    /\ items[1].bytes[1] = ESC
    /\ input[Len(items[1].bytes) + 1] = ESC

\* C4 as stated: an ESC that no recognized body follows is emitted as a code
\* token of kind Escape.
C4_AsStated ==
    [][(~ended /\ slice # <<>> /\ slice[1] = ESC /\ ~body(Drop(slice, 1)).ok) =>
            items' = Append(items, EscapeTok("Escape", <<>>))]_vars

\* C4 amended: a code token of kind Escape is emitted exactly for an ESC that
\* a second ESC follows, and it consumes both bytes; an ESC that no recognized
\* body follows is emitted as a literal token that starts with that ESC.
C4_EscapeOnlyForEscEsc ==
    [][(~ended /\ slice # <<>> /\ slice[1] = ESC) =>
            /\ (Len(slice) >= 2 /\ slice[2] = ESC) =>
                    /\ items' = Append(items, EscapeTok("Escape", <<>>))
                    /\ slice' = Drop(slice, 2)
            /\ ~body(Drop(slice, 1)).ok =>
                    /\ Len(items') = Len(items) + 1
                    /\ items'[Len(items')].tag = "Bytes"
                    /\ items'[Len(items')].bytes[1] = ESC
            /\ (items' # items /\ items'[Len(items')].kind = "Escape") =>
                    (Len(slice) >= 2 /\ slice[2] = ESC)]_vars

C4_Witness ==
    /\ input = <<ESC, ESC, ESC>>
    /\ ended
    /\ items = <<EscapeTok("Escape", <<>>), BytesTok(<<ESC>>)>>

\* the graphics-rendition inputs with their parameters
SgrCases ==
    {[bytes |-> SgrInput(ps) \o suf, ps |-> ps, suf |-> suf] :
        ps \in SgrTuples, suf \in Suffixes}

\* C5: ESC [ p1 ; .. ; pk m with k in 1..5 yields exactly one token
\* SetGraphicsMode(k, [p1, .., pk, 0, .., 0]) that consumes the whole sequence.
C5_SgrDecoded ==
    items # <<>> =>
        \A c \in SgrCases :
            input = c.bytes =>
                /\ items[1] = EscapeTok("SetGraphicsMode",
                                <<Len(c.ps)>> \o [i \in 1..5 |->
                                    IF i <= Len(c.ps) THEN c.ps[i] ELSE 0])
                /\ Len(items) = 1 => slice = c.suf

C5_Witness ==
    /\ input = SgrInput(<<48, 2, 10, 20, 30>>)
    /\ ended
    /\ items = <<EscapeTok("SetGraphicsMode", <<5, 48, 2, 10, 20, 30>>)>>

-----------------------------------------------------------------------------
(* Properties of the state machine, checked under SpecScreen.  A property  *)
(* of a handler is stated of its result on every reachable running state.  *)

\* the colors the claim gives the brush b after SetGraphicsMode(p)
ClaimedFg(p, b) ==
    CASE p[1] = 1 /\ p[2] \in {0, 39} -> default_fg
      [] p[1] = 3 /\ p[2] = 38 /\ p[3] = 5 -> rgb_from_ansi256(p[4])
      [] p[1] = 5 /\ p[2] = 38 /\ p[3] = 2 -> Rgb(p[4], p[5], p[6])
      [] OTHER -> b.fg_color

ClaimedBg(p, b) ==
    CASE p[1] = 1 /\ p[2] \in {0, 49} -> default_bg
      [] p[1] = 3 /\ p[2] = 48 /\ p[3] = 5 -> rgb_from_ansi256(p[4])
      [] p[1] = 5 /\ p[2] = 48 /\ p[3] = 2 -> Rgb(p[4], p[5], p[6])
      [] OTHER -> b.bg_color

\* C6: a graphics-rendition code changes only the brush colors, as the
\* parameter pattern says, and nothing for any other pattern; the brush
\* position and every grid cell stay.
C6_SgrOnlyBrushColors ==
    status = "running" =>
        \A ac \in {c \in Codes : c.kind = "SetGraphicsMode"} :
            handle_ansi(Screen, ac) =
                [Screen EXCEPT !.brush.fg_color = ClaimedFg(ac.p, brush),
                               !.brush.bg_color = ClaimedBg(ac.p, brush)]

C6_Witness ==
    /\ grid = <<<<[c |-> 65, fg_color |-> default_fg, bg_color |-> default_bg]>>>>
    /\ brush = [pos |-> <<2, 1>>, fg_color |-> Rgb(255, 0, 0),
                bg_color |-> Rgb(10, 20, 30)]

IsPrintable(ch) == ch >= 32 /\ ch # 127

\* the spans of printable characters only
PrintableSpans(S) ==
    {b \in S : from_utf8(b).ok /\ \A i \in 1..Len(from_utf8(b).chars) :
                                      IsPrintable(from_utf8(b).chars[i])}

Larger(a, b) == IF a >= b THEN a ELSE b

\* what the claim says of screen `after`, reached from `before` by a span of
\* the printable characters chars
PaintedAsClaimed(before, chars, after) ==
    LET x == before.brush.pos[1]
        y == before.brush.pos[2]
        n == Len(chars)
        old == IF y <= Len(before.grid) THEN before.grid[y] ELSE <<>>
    IN  /\ after.status = "running"
        /\ after.brush = [before.brush EXCEPT !.pos = <<x + n, y>>]
        /\ Len(after.grid) = Larger(Len(before.grid), y)
        /\ \A r \in 1..Len(after.grid) :
              r # y => after.grid[r] = IF r <= Len(before.grid)
                                       THEN before.grid[r] ELSE <<>>
        /\ Len(after.grid[y]) = Larger(Len(old), x + n - 1)
        /\ \A k \in 1..Len(after.grid[y]) :
              after.grid[y][k] =
                  IF k >= x /\ k <= x + n - 1
                  THEN [c |-> chars[k - x + 1], fg_color |-> before.brush.fg_color,
                        bg_color |-> before.brush.bg_color]
                  ELSE IF k <= Len(old) THEN old[k] ELSE CellEmpty

\* C7: a span of n printable characters applied with the brush at (x, y)
\* writes them into columns x..x+n-1 of row y in the brush colors, advances
\* the column by n, keeps the row, and fills the cells it creates but does not
\* paint with default blanks.
C7_PaintsSpan ==
    status = "running" =>
        \A b \in PrintableSpans(SpansNow) :
            PaintedAsClaimed(Screen, from_utf8(b).chars, handle_bytes(Screen, b))

\* C7 holds of every state whose brush column is a column of the grid
C7_PaintsSpanFromColumn1 ==
    (status = "running" /\ brush.pos[1] >= 1) =>
        \A b \in PrintableSpans(SpansNow) :
            PaintedAsClaimed(Screen, from_utf8(b).chars, handle_bytes(Screen, b))

\* the spans that reach the loop over the characters
TextSpans(S) ==
    {b \in S : b \notin {<<7>>, <<8>>, <<8, 27, 91, 75>>} /\ from_utf8(b).ok}

\* what the claim says of one newline, carriage return or tab; sums are sums
\* of usize
ControlAsClaimed(st, ch, after) ==
    CASE ch = 10 -> after = [st EXCEPT !.brush.pos[2] = @ + 1]
      [] ch = 13 -> after = [st EXCEPT !.brush.pos[1] = 1]
      [] ch = 9  -> after = [st EXCEPT !.brush.pos[1] = @ + 4]
      [] OTHER   -> TRUE

RECURSIVE ControlsAsClaimed(_, _)
ControlsAsClaimed(st, chars) ==
    \/ chars = <<>>
    \/ st.status # "running"
    \/ /\ ControlAsClaimed(st, Head(chars), HandleChar(st, Head(chars)))
       /\ ControlsAsClaimed(HandleChar(st, Head(chars)), Tail(chars))

Painted(ch) == [c |-> ch, fg_color |-> default_fg, bg_color |-> default_bg]

\* the screen the claim gives for "A\nB\rC" fed to a fresh screen
ExampleScreen ==
    [grid |-> <<<<Painted(65)>>, <<Painted(67), Painted(66)>>>>,
     brush |-> [BrushDefault EXCEPT !.pos = <<2, 2>>],
     status |-> "running"]

\* C8: within a literal span a newline adds 1 to the row and keeps the
\* column, a carriage return sets the column to 1 and keeps the row, a tab
\* adds 4 to the column; none changes the grid or the colors.  "A\nB\rC" fed
\* to a fresh screen paints A at (1,1), B at (2,2), C at (1,2) and leaves the
\* brush at (2,2).
C8_ControlChars ==
    status = "running" =>
        /\ \A b \in TextSpans(SpansNow) : ControlsAsClaimed(Screen, from_utf8(b).chars)
        /\ fed = 0 => handle_bytes(Screen, ExampleSpan) = ExampleScreen

C8_Witness ==
    /\ Screen = ExampleScreen
    /\ fed = Len(ExampleSpan)

\* C9: no token makes the state machine fail.
C9_NeverFails == status = "running"

\* C10: the brush column is at least 1 in every reachable state.  A column is
\* a usize, so the only column below 1 is 0; stated of a running process.
C10_ColumnAtLeastOne == status = "running" => brush.pos[1] # 0

\* the row y of grid g, empty when the grid has no such row yet
RowOf(g, y) == IF y >= 1 /\ y <= Len(g) THEN g[y] ELSE <<>>

\* what the claim says of screen `after`, reached from `before` by an
\* erase-line code: c and L are the column and the length of the brush's row;
\* c - 1 is a usize, so no L is greater than the c - 1 of a column below 1
EraseLineAsClaimed(before, after) ==
    LET c == before.brush.pos[1]
        y == before.brush.pos[2]
        old == RowOf(before.grid, y)
    IN  /\ after.status = "running"
        /\ after.brush = before.brush
        /\ Len(after.grid) = Larger(Len(before.grid), y)
        /\ \A r \in 1..Len(after.grid) :
              r # y => after.grid[r] = RowOf(before.grid, r)
        /\ IF c >= 1 /\ Len(old) > c - 1
           THEN /\ Len(after.grid[y]) = c - 1
                /\ \A k \in 1..(c - 1) : after.grid[y][k] = old[k]
           ELSE after.grid[y] = old

EraseLineCodes == {ac \in Codes : ac.kind = "EraseLine"}

\* C11: an erase-line code with the brush at column c on a row of length L
\* truncates the row to c-1 cells when L > c-1 and keeps its length otherwise;
\* the cells below column c, the other rows and the brush stay.
C11_EraseLine ==
    status = "running" =>
        \A ac \in EraseLineCodes : EraseLineAsClaimed(Screen, handle_ansi(Screen, ac))

\* C11 holds of every state whose brush column is a column of the grid
C11_EraseLineFromColumn1 ==
    (status = "running" /\ brush.pos[1] >= 1) =>
        \A ac \in EraseLineCodes : EraseLineAsClaimed(Screen, handle_ansi(Screen, ac))

\* the spans String::from_utf8 rejects
InvalidSpans(S) == {b \in S : ~from_utf8(b).ok}

\* the tokens that follow a rejected span in a batch: a printable character,
\* a color change and an erase-line code
FollowingTokens ==
    {BytesTok(<<65>>)} \cup {ac \in Codes : ac.kind = "EraseLine" \/ ac.p = <<3, 38, 5, 196, 0, 0>>}

\* C12: a literal span that is not valid UTF-8 is dropped whole: the grid
\* and the brush stay as they are, and the next token of the batch is handled
\* as if the span had not been there.
C12_InvalidUtf8Dropped ==
    status = "running" =>
        \A b \in InvalidSpans(SpansNow) :
            /\ handle_bytes(Screen, b) = Screen
            /\ \A tok \in FollowingTokens :
                  handle_output(Screen, <<BytesTok(b), tok>>)
                      = handle_output(Screen, <<tok>>)

C12_Witness ==
    /\ last = BytesTok(<<65, 195>>)
    /\ fed = 3
    /\ status = "running"
    /\ grid = <<<<Painted(65)>>>>
    /\ brush = [BrushDefault EXCEPT !.pos = <<2, 1>>]

-----------------------------------------------------------------------------
(* Properties of the bridge, checked under SpecBridge.                     *)

\* the batches of the reads so far, in the order of the reads: the tokens of
\* each chunk in lexer order
ReadBatches ==
    LET got == SelectSeq(reads, LAMBDA r : r.kind # "err")
    IN  [i \in 1..Len(got) |-> Collect(got[i].bytes)]

\* the batches on their way to Screen::update, the oldest first
InFlight ==
    [i \in 1..Len(SelectSeq(out, LAMBDA m : m.tag = "Output")) |->
        SelectSeq(out, LAMBDA m : m.tag = "Output")[i].batch]
    \o (IF fw.pc = "send" THEN <<fw.held>> ELSE <<>>)
    \o tx
    \o (IF rd.pc = "send" THEN <<rd.held>> ELSE <<>>)

RECURSIVE Flatten(_)
Flatten(batches) ==
    IF batches = <<>> THEN <<>> ELSE Head(batches) \o Flatten(Tail(batches))

FreshScreen == [grid |-> <<>>, brush |-> BrushDefault, status |-> "running"]

\* C13: the batches reach the state machine in the order the read loop
\* produced them, none lost, duplicated or reordered, and the tokens are
\* applied in the order their bytes were read, under every interleaving.
C13_BatchesInOrder ==
    /\ ReadBatches = delivered \o InFlight
    /\ grid = handle_output(FreshScreen, Flatten(delivered)).grid
    /\ brush = handle_output(FreshScreen, Flatten(delivered)).brush

C13_Witness ==
    /\ Len(reads) = 3
    /\ reads[1].bytes # reads[2].bytes
    /\ Len(delivered) = 2
    /\ Len(delivered[1]) = 2
    /\ tx = <<Collect(reads[3].bytes)>>
    /\ Len(grid[1]) = 2

\* C14: the read loop that has produced batch K+1 while K batches wait in the
\* channel stays at its send until a batch is taken out; the channel never
\* holds more than K batches.
C14_Backpressure ==
    [][/\ Len(tx') <= QueueCapacity
       /\ (rd.pc = "send" /\ Len(tx) = QueueCapacity) => (rd' = rd /\ sends' = sends)]_vars

C14_Witness ==
    /\ rd.pc = "send"
    /\ Len(tx) = QueueCapacity
    /\ Len(reads) = QueueCapacity + 1
    /\ sends = QueueCapacity
    /\ fw.pc = "recv"
    /\ delivered = <<>>

\* a read has returned an error or no bytes
ReadsEnded == \E i \in 1..Len(reads) : reads[i].kind \in {"eof", "err"}

\* C15: after a read error or a read of 0 bytes the read loop reads no more
\* and sends no further batch.
C15_ReadLoopEnds ==
    [][ReadsEnded => (reads' = reads /\ sends' = sends)]_vars

-----------------------------------------------------------------------------
(* The lexer run on the two halves of a sequence, as two reads return them. *)

\* the bytes of the literal tokens among toks, joined
RECURSIVE LiteralBytes(_)
LiteralBytes(toks) ==
    IF toks = <<>> THEN <<>>
    ELSE (IF Head(toks).tag = "Bytes" THEN Head(toks).bytes ELSE <<>>)
            \o LiteralBytes(Tail(toks))

OnlyLiterals(toks) == \A i \in 1..Len(toks) : toks[i].tag = "Bytes"

\* s lexed as the two chunks s[..k] and s[k..], without carry-over
SplitLex(s, k) == Collect(Take(s, k)) \o Collect(Drop(s, k))

\* the input was decoded as exactly one escape code
OneCode == ended /\ Len(items) = 1 /\ items[1].tag = "Escape"

\* C16: a sequence that lexes to exactly one escape code, split at any point
\* into two chunks lexed independently, yields only literal tokens, whose
\* bytes joined are the sequence.
C16_SplitIsLiteral ==
    OneCode =>
        \A k \in 1..(Len(input) - 1) :
            /\ OnlyLiterals(SplitLex(input, k))
            /\ LiteralBytes(SplitLex(input, k)) = input

C16_Witness ==
    /\ OneCode
    /\ items[1].kind = "SetGraphicsMode"
    /\ Len(input) >= 7
    /\ OnlyLiterals(SplitLex(input, 4))
    /\ Len(SplitLex(input, 4)) = 2

-----------------------------------------------------------------------------
(* Properties of Screen::update, checked under SpecEngine.                 *)

\* the payload the claim gives a write request; a key that is none of the
\* four carries none
ClaimedPayload(c) ==
    CASE c.variant \in {"Text", "Bytes"} -> c.val
      [] c.variant = "Sigint" -> <<3>>
      [] c = Key("Enter") -> <<10>>
      [] c = Key("Space") -> <<32>>
      [] c = Key("Backspace") -> <<127>>
      [] c = Key("Escape") -> <<27>>
      [] OTHER -> <<>>

RECURSIVE ClaimedStream(_)
ClaimedStream(cs) ==
    IF cs = <<>> THEN <<>> ELSE ClaimedPayload(Head(cs)) \o ClaimedStream(Tail(cs))

\* the messages received after Message::Init, none if it has not come
RECURSIVE AfterInit(_)
AfterInit(ms) ==
    IF ms = <<>> THEN <<>>
    ELSE IF Head(ms) = InitMark THEN Tail(ms)
    ELSE AfterInit(Tail(ms))

IsPrefix(a, b) == Len(a) <= Len(b) /\ Take(b, Len(a)) = a

\* C17 as stated: at every point the bytes written are the payloads of all
\* the write requests received, joined in order, wherever a request stands
\* relative to the start of the session and to the batches.
C17_AsStated ==
    status = "running" => written = ClaimedStream(Requests(received))

\* C17 amended: the write requests received before Message::Init are
\* dropped; the bytes written are the payloads of the requests received after
\* it, joined in order, the last one cut short when its write failed.
C17_WritesAfterInitInOrder ==
    LET after == Requests(AfterInit(received))
    IN  IF write_failed
        THEN /\ IsPrefix(ClaimedStream(Take(after, Len(after) - 1)), written)
             /\ IsPrefix(written, ClaimedStream(after))
             /\ written # ClaimedStream(after)
        ELSE written = ClaimedStream(after)

C17_Witness ==
    /\ received = <<Text(<<97>>), InitMark, Key("Backspace")>>
    /\ written = <<127>>
    /\ delivered # <<>>
    /\ status = "running"

\* C18: a failed write is fatal to that write only: the engine goes on with
\* the later write requests and batches.
C18_WriteFailureNotFatal == write_failed => status = "running"

-----------------------------------------------------------------------------
(* Properties of the grid over token sequences, checked under SpecScreen.  *)

\* row r exists after the step and is at least as long as before it
KeepsLength(r) == r <= Len(grid') /\ Len(grid'[r]) >= Len(grid[r])

\* C19 as stated: over every token sequence no row ever gets shorter.
C19_AsStated == [][\A r \in 1..Len(grid) : KeepsLength(r)]_vars

\* C19 amended: no row is ever removed, and a row gets shorter only when the
\* token applied is the erase-line code and the row is the one the brush is
\* on; it is then left no longer than the brush's column minus one.
C19_OnlyEraseLineShortens ==
    [][\A r \in 1..Len(grid) :
          \/ KeepsLength(r)
          \/ /\ r <= Len(grid')
             /\ last'.kind = "EraseLine"
             /\ r = brush.pos[2]
             /\ Len(grid'[r]) = brush.pos[1] - 1]_vars

\* "A\r" painted, then ESC [ K at column 1 empties the row
C19_Witness ==
    /\ last.kind = "EraseLine"
    /\ shrunk
    /\ grid = <<<<>>>>
    /\ brush.pos = <<1, 1>>
    /\ status = "running"

\* the two colours of every cell of row `cells`
RowColours(cells) ==
    UNION {{cells[k].fg_color, cells[k].bg_color} : k \in 1..Len(cells)}

\* every colour the brush and the cells hold
Colours ==
    {brush.fg_color, brush.bg_color} \cup UNION {RowColours(grid[r]) : r \in 1..Len(grid)}

\* C20: the brush's two colours and every cell's two colours are RGB triples
\* in every reachable state; a palette index (TermColor::Ansi) is never stored.
C20_AlwaysRgb == \A col \in Colours : col.variant = "Rgb"

\* SGR 38;5;196 moved the brush off the default colour, an "A" painted in it
C20_Witness ==
    /\ brush.fg_color = Rgb(255, 0, 0)
    /\ \E r \in 1..Len(grid) : \E k \in 1..Len(grid[r]) :
            grid[r][k].c = 65 /\ grid[r][k].fg_color = Rgb(255, 0, 0)
    /\ status = "running"

-----------------------------------------------------------------------------
(* Backspace within a literal span, checked under SpecScreen.              *)

\* a column above 1, read as a usize (a wrapped column is a huge one)
AboveOne(col) == col > 1 \/ col < 0

\* what the claim says of one backspace
BackspaceAsClaimed(st, ch, after) ==
    (ch = 8 /\ AboveOne(st.brush.pos[1])) => after = [st EXCEPT !.brush.pos[1] = @ - 1]

RECURSIVE BackspacesAsClaimed(_, _)
BackspacesAsClaimed(st, chars) ==
    \/ chars = <<>>
    \/ st.status # "running"
    \/ /\ BackspaceAsClaimed(st, Head(chars), HandleChar(st, Head(chars)))
       /\ BackspacesAsClaimed(HandleChar(st, Head(chars)), Tail(chars))

\* the backspaces of the spans that reach the character loop are as claimed
C21_BackspaceInLoop ==
    status = "running" =>
        \A b \in TextSpans(SpansNow) : BackspacesAsClaimed(Screen, from_utf8(b).chars)

\* C21: within a literal span that decodes as UTF-8 every backspace takes 1
\* from a column above 1 and changes nothing else, whatever the span's length
\* and other characters; the span of the single byte 0x08 does so too.
C21_BackspaceDecrements ==
    /\ C21_BackspaceInLoop
    /\ (status = "running" /\ AboveOne(brush.pos[1]) /\ <<8>> \in SpansNow) =>
            handle_bytes(Screen, <<8>>) = [Screen EXCEPT !.brush.pos[1] = @ - 1]

-----------------------------------------------------------------------------
(* Empty parameter slots of the graphics rendition, checked under SpecLexer. *)

\* ESC [ ; 5 m and ESC [ 5 ; m with the two parameters the claim reads
EmptySlotCases ==
    {[bytes |-> SgrInputOfRuns(<<<<>>, Lit(<<"5">>)>>), ps |-> <<0, 5>>],
     [bytes |-> SgrInputOfRuns(<<Lit(<<"5">>), <<>>>>), ps |-> <<5, 0>>]}

\* C22: in the graphics rendition an empty digit run is the value 0: ESC [ ; 5 m
\* is one graphics-rendition code with the 2 parameters (0, 5).
C22_EmptySgrSlotIsZero ==
    items # <<>> =>
        \A c \in EmptySlotCases :
            input = c.bytes =>
                items[1] = EscapeTok("SetGraphicsMode", <<2>> \o Pad5(c.ps))

-----------------------------------------------------------------------------
(* The full erase-display code, checked under SpecScreen.                  *)

\* row r is one of the ROWS rows from the brush's row y
InErased(y, r) == r >= y /\ r <= y + ROWS - 1

\* what the claim says of screen `after`, reached from `before` by a full
\* erase-display code
EraseDisplayAsClaimed(before, after) ==
    LET y == before.brush.pos[2]
    IN  /\ after.status = "running"
        /\ after.brush = before.brush
        /\ Len(after.grid) = Larger(Len(before.grid), y + ROWS - 1)
        /\ \A r \in 1..Len(after.grid) :
              IF InErased(y, r)
              THEN after.grid[r] = [k \in 1..Len(RowOf(before.grid, r)) |-> Painted(32)]
              ELSE after.grid[r] = RowOf(before.grid, r)

EraseDisplayCodes == {ac \in Codes : ac.kind = "EraseAllDisplay"}

\* C23: a full erase-display code with the brush at row y sets every cell of
\* rows y .. y+ROWS-1 to a space in the default colors, creates the missing
\* ones empty, keeps every row's length, every row above y and the brush.
C23_EraseDisplay ==
    status = "running" =>
        \A ac \in EraseDisplayCodes :
            EraseDisplayAsClaimed(Screen, handle_ansi(Screen, ac))

\* "A" painted, then ESC [ 2 J: the cell is blank, rows 1 .. ROWS exist
C23_Witness ==
    /\ last.kind = "EraseAllDisplay"
    /\ Len(grid) = ROWS
    /\ grid[1] = <<Painted(32)>>
    /\ \A r \in 2..ROWS : grid[r] = <<>>
    /\ brush = [BrushDefault EXCEPT !.pos = <<2, 1>>]
    /\ status = "running"

-----------------------------------------------------------------------------
(* The codes without an effect, checked under SpecScreen.                  *)

\* every code but erase-line, full erase-display and graphics rendition
OtherCodes ==
    {ac \in Codes : ac.kind \notin {"EraseLine", "EraseAllDisplay", "SetGraphicsMode"}}

\* the kinds of code the claim lists, each of which is among the codes fed
ListedKinds ==
    {"EraseDisplay", "CursorSave", "CursorRestore", "CursorPos", "CursorUp",
     "CursorResetStyle", "SetMode", "ResetMode", "SetTopAndBottom",
     "SetUSG0", "SetAlternateKeypad", "HideCursor", "Escape"}

-----------------------------------------------------------------------------
(* Termination and coverage of the lexer, checked under SpecLexer.         *)

\* the bytes this call of next() consumed
Consumed == Take(slice, Len(slice) - Len(slice'))

\* a call that returns a token consumes at least one byte from the front of
\* the remainder, and a literal token is the bytes consumed
ConsumesFront ==
    items' # items =>
        /\ Len(slice') < Len(slice)
        /\ slice' = Drop(slice, Len(slice) - Len(slice'))
        /\ items'[Len(items')].tag = "Bytes" => items'[Len(items')].bytes = Consumed

\* what is left is the tail of the input, no more tokens than bytes consumed
\* have been returned, and None comes only when nothing is left
CoversInOrder ==
    /\ slice = Drop(input, Len(input) - Len(slice))
    /\ Len(items) <= Len(input) - Len(slice)
    /\ ended => slice = <<>>

\* twice the bytes left, plus one until None has been returned: a natural
\* number that no run of calls can lower for ever
CallsLeft == 2 * Len(slice) + (IF ended THEN 0 ELSE 1)

\* C25: iterating the lexer over a slice ends after at most len(slice)
\* tokens: every call of next() lowers CallsLeft, a call on a non-empty
\* remainder consumes at least one byte, the ranges consumed follow one
\* another and cover the slice in order, and each literal token is the bytes
\* of its range.
C25_Terminates == [][ConsumesFront /\ CallsLeft' < CallsLeft /\ CoversInOrder']_vars

\* "x", ESC [ A lexed to the end: a literal, then a code
C25_Witness ==
    /\ input = Lit(<<"x">>) \o <<ESC>> \o Lit(<<"[", "A">>)
    /\ ended
    /\ slice = <<>>
    /\ Len(items) = 2
    /\ items[1] = BytesTok(Lit(<<"x">>))
    /\ items[2].tag = "Escape"

-----------------------------------------------------------------------------
(* The view after a full erase-display, checked under SpecScreen.          *)

AllBlank(rows) ==
    \A r \in 1..Len(rows) : \A k \in 1..Len(rows[r]) : rows[r][k] = Painted(32)

\* the view is ROWS rows, all blank, and begins at the brush's row
ViewErased(g, b) ==
    /\ Len(window(g, ROWS)) = ROWS
    /\ AllBlank(window(g, ROWS))
    /\ Len(g) - ROWS + 1 = b.pos[2]

\* C26: right after a full erase-display code every cell of the view
\* (the last ROWS rows of the grid) is blank and the view begins at the
\* brush's row; the brush row never decreases and the grid never has more
\* than brush row + ROWS - 1 rows.
C26_ViewBlankAfterErase ==
    [][/\ last'.kind = "EraseAllDisplay" => ViewErased(grid', brush')
       /\ brush'.pos[2] >= brush.pos[2]
       /\ Len(grid') <= brush'.pos[2] + ROWS - 1]_vars

\* a newline and "A", then ESC [ 2 J: the view is rows 2 .. ROWS + 1
C26_Witness ==
    /\ last.kind = "EraseAllDisplay"
    /\ Len(grid) = ROWS + 1
    /\ grid[2] = <<Painted(32)>>
    /\ brush.pos = <<2, 2>>
    /\ window(grid, ROWS) = SubSeq(grid, 2, ROWS + 1)
    /\ status = "running"

====
